---- MODULE Spec2Model ----
(***************************************************************************)
(* Model of src/aws/ecs/ecs-status.py: the paginated listing functions,    *)
(* the batched describe functions, the status aggregation and the menu     *)
(* loop that sequences them.  The remote ECS API is the environment: each  *)
(* call is answered by a response the remote chooses.                      *)
(*                                                                         *)
(* Conventions.  An optional Python value (None / absent keyword / absent  *)
(* response key) is a sequence of length at most one: <<>> is None and     *)
(* <<v>> is the value v.  An ARN is the sequence of its '/'-separated      *)
(* segments, so arn.split('/')[-1] is its last element.  A control point   *)
(* named after a function is the point where that function resumes after   *)
(* the get_* call it made returns.                                         *)
(***************************************************************************)
EXTENDS Integers, Sequences, FiniteSets, TLC

\* ------------------------------------------------------------------ bounds
MaxPages == 3          \* pages the remote serves in one listing pass
MaxPageLen == 2        \* identifiers on one page
NumIds == 2            \* distinct identifiers per resource category
MaxLen == 250          \* longest identifier list given to a get_*_details
MaxRecs == 5           \* longest record list given to the status aggregation
MenuItems == 2         \* clusters, services and tasks the remote holds while
                       \* the menu runs

\* ------------------------------------------------------- program constants
TaskBatch == 100       \* describe_tasks chunk size
ServiceBatch == 10     \* describe_services chunk size

\* ------------------------------------------------------------ value domains
None == <<>>
Some(v) == <<v>>

ClusterArn(n) == <<"arn:aws:ecs:cluster", n>>
ServiceArn(n) == <<"arn:aws:ecs:service", n>>
TaskArn(n) == <<"arn:aws:ecs:task", n>>

ClusterArns == {ClusterArn(n) : n \in 1..NumIds}
ServiceArns == {ServiceArn(n) : n \in 1..NumIds}
TaskArns == {TaskArn(n) : n \in 1..NumIds}

\* Continuation tokens are opaque strings; the empty string is one of them.
Tokens == {"", "tok1", "tok2"}
Errors == {"AccessDenied", "EndpointConnectionError"}
Statuses == {"RUNNING", "PENDING", "STOPPED", "DEPROVISIONING"}

SeqsUpTo(S, n) == UNION {[1..k -> S] : k \in 0..n}

\* Python truthiness of an optional string (if next_token:) and of an
\* optional ARN (if service_arn:).
TruthyStr(opt) == opt # None /\ opt[1] # ""
TruthyArn(opt) == opt # None

\* arn.split('/')[-1]
LastSegment(arn) == arn[Len(arn)]

VARIABLES
    pc,          \* control point of the program
    raised,      \* exception that reached the handler of __main__ (or None)
    world,       \* what the remote holds; world.any: it answers anything
    fetched,     \* values the get_* calls returned since the main menu was
                 \* last answered, in order
    \* ---- frame of the running get_* function
    fn,          \* the get_* function entered last
    ret,         \* control point it returns to
    retval,      \* value it returned, until the caller takes it
    op_cluster,  \* its cluster_arn argument
    op_service,  \* service_arn argument of get_tasks (None if not given)
    arns,        \* clusters / services / tasks accumulator of a listing pass
    next_token,  \* next_token local of a listing pass
    ids,         \* task_arns / service_arns / cluster_arns argument of a
                 \* get_*_details function
    chunk_i,     \* position of the for loop in task_chunks / service_chunks
    all_recs,    \* all_tasks / all_services accumulator
    reqs,        \* requests it issued, in order
    resps,       \* responses it received, in order
    \* ---- frame of list_*_menu / show_*
    f_arns,          \* cluster_arns / service_arns / task_arns
    f_service_arns,  \* service_arns of show_cluster_summary
    f_details,       \* clusters / services / task_details
    status_count,    \* status_count / tasks_by_status as printed
    \* ---- frame of main_menu
    selection,       \* selection
    cluster_info,    \* cluster_info (cluster_arn, cluster_name)
    service_info,    \* service_info (service_arn, service_name)
    service_arns,    \* service_arns
    service_details, \* service_details
    svc_i,           \* position of "for service in service_details"
    task_arns,       \* task_arns
    task_details     \* task_details

listlocals == <<op_service, arns, next_token>>
desclocals == <<ids, chunk_i, all_recs>>
callvars == <<fn, ret, retval, op_cluster, op_service, arns, next_token,
              ids, chunk_i, all_recs, reqs, resps>>
flocals == <<f_arns, f_service_arns, f_details, status_count>>
mmlocals == <<selection, cluster_info, service_info, service_arns,
              service_details, svc_i, task_arns, task_details>>
vars == <<pc, raised, world, fetched, callvars, flocals, mmlocals>>

\* ------------------------------------------------------------ remote API
\* A list_* request: keyword arguments that are not passed are None.
ListRequest(api, cluster, service, token) ==
    [api |-> api, cluster |-> cluster, serviceName |-> service,
     nextToken |-> token]

\* A response: the page's identifiers (or the records described) and the
\* optional 'nextToken' key, or a raised error.
ListOk(items, token) ==
    [ok |-> TRUE, items |-> items, nextToken |-> token, error |-> ""]
Failure(e) ==
    [ok |-> FALSE, items |-> <<>>, nextToken |-> None, error |-> e]

Failures == {Failure(e) : e \in Errors}

\* The pages a remote that answers anything may serve as the n-th response
\* of a pass over the identifier set idset; the MaxPages-th page is the last.
ListResponses(idset, n) ==
    {ListOk(items, None) : items \in SeqsUpTo(idset, MaxPageLen)}
    \cup (IF n < MaxPages
          THEN {ListOk(items, Some(t)) :
                    items \in SeqsUpTo(idset, MaxPageLen), t \in Tokens}
          ELSE {})
    \cup Failures

\* The n-th response of a pass when the remote holds the given pages.
PagedResponses(pages, n) == {ListOk(pages[n].items, pages[n].nextToken)}
                                \cup Failures

TaskRecord(arn, status) == [taskArn |-> arn, lastStatus |-> status]
ServiceRecord(arn) == [serviceArn |-> arn, serviceName |-> LastSegment(arn)]
ClusterRecord(arn) == [clusterArn |-> arn, clusterName |-> LastSegment(arn)]

DescribeRequest(api, cluster, chunk) ==
    [api |-> api, cluster |-> cluster, ids |-> chunk]

\* The remote describes the requested identifiers that still exist; the
\* ones in world.gone have no record in the response.
StillThere(chunk) == SelectSeq(chunk, LAMBDA a : a \notin world.gone)

DescribeTasksResponses(chunk) ==
    LET there == StillThere(chunk)
    IN  {ListOk([i \in 1..Len(there) |->
                    TaskRecord(there[i], world.status[there[i]])], None)}
            \cup Failures

DescribeServicesResponses(chunk) ==
    LET there == StillThere(chunk)
    IN  {ListOk([i \in 1..Len(there) |-> ServiceRecord(there[i])], None)}
            \cup Failures

DescribeClustersResponses(chunk) ==
    LET there == StillThere(chunk)
    IN  {ListOk([i \in 1..Len(there) |-> ClusterRecord(there[i])], None)}
            \cup Failures

\* ------------------------------------------------------- paginated listing
\* Entry of a get_* listing function: locals initialised, nothing sent yet.
EnterListing(f, cluster, service, site) ==
    /\ pc' = f
    /\ fn' = f
    /\ ret' = site
    /\ retval' = None
    /\ op_cluster' = cluster
    /\ op_service' = service
    /\ arns' = <<>>
    /\ next_token' = None
    /\ ids' = <<>>
    /\ chunk_i' = 1
    /\ all_recs' = <<>>
    /\ reqs' = <<>>
    /\ resps' = <<>>

HasNextToken_FirstPageOnly(r) == FALSE

HasNextToken_NonEmptyPage(r) == r.nextToken # None /\ r.items # <<>>

\* 'nextToken' in response
HasNextToken(r) == r.nextToken # None

RECURSIVE Dedup(_)
Dedup(s) ==
    IF s = <<>> THEN <<>>
    ELSE LET front == Dedup(SubSeq(s, 1, Len(s) - 1))
         IN  IF \E i \in 1..Len(front) : front[i] = s[Len(s)]
             THEN front ELSE Append(front, s[Len(s)])

Extend_Dedup(list, items) == Dedup(list \o items)

Extend_Prepend(list, items) == items \o list

\* list.extend
Extend(list, items) == list \o items

Raise_ReturnsListed(r) ==
    /\ pc' = ret
    /\ retval' = Some(arns)
    /\ fetched' = Append(fetched, [fn |-> fn, value |-> arns])
    /\ UNCHANGED <<fn, ret, raised>>

Raise_ReturnsFetched(r) ==
    /\ pc' = ret
    /\ retval' = Some(all_recs)
    /\ fetched' = Append(fetched, [fn |-> fn, value |-> all_recs])
    /\ UNCHANGED <<fn, ret, raised>>

\* A remote call raises.  No function of the program catches the exception:
\* it unwinds every frame up to the handler of __main__, which prints it and
\* exits with status 1.
Raise(r) ==
    /\ pc' = "error"
    /\ raised' = Some(r.error)
    /\ UNCHANGED <<fn, ret, retval, fetched>>

\* return value: control goes back to the call site with the value.
Return(value) ==
    /\ pc' = ret
    /\ retval' = Some(value)
    /\ fetched' = Append(fetched, [fn |-> fn, value |-> value])
    /\ UNCHANGED <<fn, ret, raised>>

\* One iteration of the while-True loop of a listing function, given the
\* request it sends and the response r the remote gives.
ListIteration(req, r) ==
    /\ reqs' = Append(reqs, req)
    /\ resps' = Append(resps, r)
    /\ UNCHANGED <<op_cluster, op_service, desclocals, world, flocals,
                   mmlocals>>
    /\ IF ~r.ok
       THEN Raise(r) /\ UNCHANGED <<arns, next_token>>
       ELSE /\ arns' = Extend(arns, r.items)
            /\ IF HasNextToken(r)
               THEN /\ next_token' = r.nextToken
                    /\ UNCHANGED <<pc, fn, ret, retval, raised, fetched>>
               ELSE /\ Return(Extend(arns, r.items))
                    /\ UNCHANGED next_token

get_clusters_request ==
    IF TruthyStr(next_token)
    THEN ListRequest("list_clusters", None, None, next_token)
    ELSE ListRequest("list_clusters", None, None, None)

get_clusters ==
    /\ pc = "get_clusters"
    /\ \E r \in (IF world.any
                 THEN ListResponses(ClusterArns, Len(reqs) + 1)
                 ELSE PagedResponses(world.clusters, Len(reqs) + 1)) :
           ListIteration(get_clusters_request, r)

get_services_request ==
    IF TruthyStr(next_token)
    THEN ListRequest("list_services", Some(op_cluster), None, next_token)
    ELSE ListRequest("list_services", Some(op_cluster), None, None)

get_services ==
    /\ pc = "get_services"
    /\ \E r \in (IF world.any
                 THEN ListResponses(ServiceArns, Len(reqs) + 1)
                 ELSE PagedResponses(world.services, Len(reqs) + 1)) :
           ListIteration(get_services_request, r)

get_tasks_request_FilterFirstPageOnly ==
    IF TruthyStr(next_token)
    THEN ListRequest("list_tasks", Some(op_cluster), None, next_token)
    ELSE ListRequest("list_tasks", Some(op_cluster), op_service, None)

get_tasks_request ==
    IF TruthyArn(op_service)
    THEN IF TruthyStr(next_token)
         THEN ListRequest("list_tasks", Some(op_cluster), op_service,
                          next_token)
         ELSE ListRequest("list_tasks", Some(op_cluster), op_service, None)
    ELSE IF TruthyStr(next_token)
         THEN ListRequest("list_tasks", Some(op_cluster), None, next_token)
         ELSE ListRequest("list_tasks", Some(op_cluster), None, None)

get_tasks ==
    /\ pc = "get_tasks"
    /\ \E r \in (IF world.any
                 THEN ListResponses(TaskArns, Len(reqs) + 1)
                 ELSE PagedResponses(world.tasks, Len(reqs) + 1)) :
           ListIteration(get_tasks_request, r)

\* --------------------------------------------------- batched detail fetch
\* range(0, stop, step)
PyRange(stop, step) ==
    [k \in 1..((stop + step - 1) \div step) |-> (k - 1) * step]

PySlice_OneShort(s, i, j) ==
    SubSeq(s, i + 1, IF j - 1 < Len(s) THEN j - 1 ELSE Len(s))

\* s[i:j] for 0 <= i <= j
PySlice(s, i, j) == SubSeq(s, i + 1, IF j < Len(s) THEN j ELSE Len(s))

\* [task_arns[i:i+100] for i in range(0, len(task_arns), 100)]
task_chunks(list) ==
    LET starts == PyRange(Len(list), TaskBatch)
    IN  [k \in 1..Len(starts) |->
            PySlice(list, starts[k], starts[k] + TaskBatch)]

\* [service_arns[i:i+10] for i in range(0, len(service_arns), 10)]
service_chunks(list) ==
    LET starts == PyRange(Len(list), ServiceBatch)
    IN  [k \in 1..Len(starts) |->
            PySlice(list, starts[k], starts[k] + ServiceBatch)]

\* Entry of a get_*_details function.
EnterDescribe(f, cluster, arg, site) ==
    /\ pc' = f
    /\ fn' = f
    /\ ret' = site
    /\ retval' = None
    /\ op_cluster' = cluster
    /\ op_service' = None
    /\ arns' = <<>>
    /\ next_token' = None
    /\ ids' = arg
    /\ chunk_i' = 1
    /\ all_recs' = <<>>
    /\ reqs' = <<>>
    /\ resps' = <<>>

ReturnEmpty_CallsAnyway ==
    /\ Return(<<>>)
    /\ reqs' = Append(reqs, DescribeRequest("describe", op_cluster, ids))
    /\ UNCHANGED <<op_cluster, listlocals, desclocals, resps, world,
                   flocals, mmlocals>>

\* if not task_arns: return []
ReturnEmpty ==
    /\ Return(<<>>)
    /\ UNCHANGED <<op_cluster, listlocals, desclocals, reqs, resps, world,
                   flocals, mmlocals>>

\* One iteration of "for chunk in chunks": describe the chunk, extend the
\* accumulator; after the last chunk, return it.
DescribeIteration(chunks, req, r) ==
    /\ reqs' = Append(reqs, req)
    /\ resps' = Append(resps, r)
    /\ UNCHANGED <<op_cluster, listlocals, ids, world, flocals, mmlocals>>
    /\ IF ~r.ok
       THEN Raise(r) /\ UNCHANGED <<chunk_i, all_recs>>
       ELSE /\ all_recs' = Extend(all_recs, r.items)
            /\ IF chunk_i < Len(chunks)
               THEN /\ chunk_i' = chunk_i + 1
                    /\ UNCHANGED <<pc, fn, ret, retval, raised, fetched>>
               ELSE /\ Return(Extend(all_recs, r.items))
                    /\ UNCHANGED chunk_i

get_task_details ==
    /\ pc = "get_task_details"
    /\ IF ids = <<>>
       THEN ReturnEmpty
       ELSE LET chunk == task_chunks(ids)[chunk_i]
            IN  \E r \in DescribeTasksResponses(chunk) :
                    DescribeIteration(task_chunks(ids),
                        DescribeRequest("describe_tasks", op_cluster, chunk), r)

get_service_details ==
    /\ pc = "get_service_details"
    /\ IF ids = <<>>
       THEN ReturnEmpty
       ELSE LET chunk == service_chunks(ids)[chunk_i]
            IN  \E r \in DescribeServicesResponses(chunk) :
                    DescribeIteration(service_chunks(ids),
                        DescribeRequest("describe_services", op_cluster, chunk),
                        r)

\* describe_clusters takes the whole list in one call.
get_cluster_details ==
    /\ pc = "get_cluster_details"
    /\ IF ids = <<>>
       THEN ReturnEmpty
       ELSE \E r \in DescribeClustersResponses(ids) :
                /\ reqs' = Append(reqs,
                               DescribeRequest("describe_clusters", None, ids))
                /\ resps' = Append(resps, r)
                /\ UNCHANGED <<op_cluster, listlocals, desclocals, world,
                               flocals, mmlocals>>
                /\ IF ~r.ok THEN Raise(r) ELSE Return(r.items)

\* ------------------------------------------------------ status aggregation
\* defaultdict(int): d[k] += 1
Increment(d, k) ==
    IF k \in DOMAIN d THEN [d EXCEPT ![k] = @ + 1] ELSE (k :> 1) @@ d

\* defaultdict(list): d[k].append(v)
AppendTo(d, k, v) ==
    IF k \in DOMAIN d THEN [d EXCEPT ![k] = Append(@, v)]
    ELSE (k :> <<v>>) @@ d

RECURSIVE status_count_KnownOnly(_)
status_count_KnownOnly(details) ==
    IF details = <<>> THEN <<>>
    ELSE LET before == status_count_KnownOnly(SubSeq(details, 1,
                                                      Len(details) - 1))
             status == details[Len(details)].lastStatus
         IN  IF status \in {"RUNNING", "PENDING", "STOPPED"}
             THEN Increment(before, status) ELSE before

\* show_cluster_summary: for task in task_details:
\*                           status_count[task['lastStatus']] += 1
RECURSIVE status_count_of(_)
status_count_of(details) ==
    IF details = <<>> THEN <<>>
    ELSE Increment(status_count_of(SubSeq(details, 1, Len(details) - 1)),
                   details[Len(details)].lastStatus)

\* show_service_summary: for task in task_details:
\*                           tasks_by_status[task['lastStatus']].append(task)
RECURSIVE tasks_by_status(_)
tasks_by_status(details) ==
    IF details = <<>> THEN <<>>
    ELSE AppendTo(tasks_by_status(SubSeq(details, 1, Len(details) - 1)),
                  details[Len(details)].lastStatus, details[Len(details)])

\* the "{status}: {len(tasks)}" lines show_service_summary prints
tasks_by_status_counts(details) ==
    LET groups == tasks_by_status(details)
    IN  [s \in DOMAIN groups |-> Len(groups[s])]

\* --------------------------------------------------------- operator input
Numerals == <<"1", "2", "3", "4", "5", "6", "7", "8", "9">>

\* str.lower() on the inputs used
Lower(s) ==
    CASE s = "Q" -> "q"
      [] s = "B" -> "b"
      [] s = "Y" -> "y"
      [] OTHER -> s

\* int(selection): the number, or None when int() raises ValueError
PyInt(s) ==
    IF \E k \in 1..Len(Numerals) : Numerals[k] = s
    THEN Some(CHOOSE k \in 1..Len(Numerals) : Numerals[k] = s)
    ELSE IF s = "0" THEN Some(0)
    ELSE IF s = "-1" THEN Some(-1)
    ELSE None

MenuInputs == {"q", "Q", "1", "2", "3", "4", "5", "abc"}
SelectInputs == {"q", "Q", "b", "B", "abc", "", "0", "-1"}
                    \cup {Numerals[k] : k \in 1..(MenuItems + 1)}
YesNoInputs == {"y", "Y", "n", ""}

PyFalse == <<FALSE>>

\* clusters_list / services_list: (arn, name) pairs in listing order
NamedList(list) == [i \in 1..Len(list) |-> <<list[i], LastSegment(list[i])>>]

ClusterChoice_ClampsToLast(sel, clusters_list) ==
    IF Lower(sel) = "q" THEN None
    ELSE IF PyInt(sel) = None THEN None
    ELSE LET index == PyInt(sel)[1] - 1
         IN  IF index < 0 \/ index >= Len(clusters_list)
             THEN clusters_list[Len(clusters_list)]
             ELSE clusters_list[index + 1]

\* the value list_clusters_menu returns for the input sel
ClusterChoice(sel, clusters_list) ==
    IF Lower(sel) = "q" THEN None
    ELSE IF PyInt(sel) = None THEN None
    ELSE LET index == PyInt(sel)[1] - 1
         IN  IF index < 0 \/ index >= Len(clusters_list) THEN None
             ELSE clusters_list[index + 1]

\* the value list_services_menu returns for the input sel
ServiceChoice(sel, services_list) ==
    IF Lower(sel) = "q" THEN None
    ELSE IF Lower(sel) = "b" THEN PyFalse
    ELSE IF PyInt(sel) = None THEN None
    ELSE LET index == PyInt(sel)[1] - 1
         IN  IF index < 0 \/ index >= Len(services_list) THEN None
             ELSE services_list[index + 1]

\* what show_task_list does with the input sel: "quit" (return None),
\* "back" (return False), "details" (a task is shown) or "invalid"
TaskChoice(sel, tasks_list) ==
    IF Lower(sel) = "q" THEN "quit"
    ELSE IF Lower(sel) = "b" THEN "back"
    ELSE IF PyInt(sel) = None THEN "invalid"
    ELSE LET index == PyInt(sel)[1] - 1
         IN  IF index < 0 \/ index >= Len(tasks_list) THEN "invalid"
             ELSE "details"

\* ------------------------------------------- what the remote holds (menu)
Page(items, token) == [items |-> items, nextToken |-> token]

MenuTokens == <<"tok1", "", "tok2">>

\* the list served size identifiers at a time
Paginate(list, size) ==
    IF list = <<>> THEN <<Page(<<>>, None)>>
    ELSE LET n == (Len(list) + size - 1) \div size
         IN  [k \in 1..n |->
                Page(SubSeq(list, (k - 1) * size + 1,
                            IF k * size < Len(list) THEN k * size
                            ELSE Len(list)),
                     IF k < n THEN Some(MenuTokens[((k - 1) % Len(MenuTokens)) + 1])
                     ELSE None)]

MenuClusters == [n \in 1..MenuItems |-> ClusterArn(n)]
MenuServices == [n \in 1..MenuItems |-> ServiceArn(n)]
MenuTasks == [n \in 1..MenuItems |-> TaskArn(n)]

StatusList == <<"RUNNING", "PENDING", "STOPPED", "DEPROVISIONING">>

\* task statuses, shifted by k
StatusBy(list, k) ==
    [a \in {list[i] : i \in 1..Len(list)} |-> StatusList[((a[2] + k) % 4) + 1]]

World(clusters, services, tasks, gone, status) ==
    [any |-> FALSE, clusters |-> clusters, services |-> services,
     tasks |-> tasks, gone |-> gone, status |-> status]

AnyWorld ==
    [any |-> TRUE, clusters |-> <<>>, services |-> <<>>, tasks |-> <<>>,
     gone |-> {}, status |-> <<>>]

NoClusters ==
    World(Paginate(<<>>, 1), Paginate(<<>>, 1), Paginate(<<>>, 1), {},
          StatusBy(MenuTasks, 0))

MenuWorlds ==
    { NoClusters,
      \* everything on one page, nothing gone
      World(Paginate(MenuClusters, MenuItems), Paginate(MenuServices, MenuItems),
            Paginate(MenuTasks, MenuItems), {}, StatusBy(MenuTasks, 0)),
      \* one identifier per page, the first task gone before it is described
      World(Paginate(MenuClusters, 1), Paginate(MenuServices, 1),
            Paginate(MenuTasks, 1), {TaskArn(1)}, StatusBy(MenuTasks, 2)),
      \* no services in the cluster
      World(Paginate(MenuClusters, MenuItems), Paginate(<<>>, 1),
            Paginate(MenuTasks, 1), {}, StatusBy(MenuTasks, 1)),
      \* no tasks, the last service gone before it is described
      World(Paginate(MenuClusters, 1), Paginate(MenuServices, 1),
            Paginate(<<>>, 1), {ServiceArn(MenuItems)}, StatusBy(MenuTasks, 0)),
      \* everything listed is gone before it is described
      World(Paginate(MenuClusters, MenuItems), Paginate(MenuServices, 1),
            Paginate(MenuTasks, MenuItems),
            {MenuClusters[i] : i \in 1..MenuItems}
                \cup {MenuServices[i] : i \in 1..MenuItems}
                \cup {MenuTasks[i] : i \in 1..MenuItems},
            StatusBy(MenuTasks, 0)) }

\* -------------------------------------------------------------- the menu
\* The program goes on at site without a get_* call in progress.
ResumeAt(site) ==
    /\ pc' = site
    /\ fn' = ""
    /\ ret' = ""
    /\ retval' = None
    /\ op_cluster' = None
    /\ op_service' = None
    /\ arns' = <<>>
    /\ next_token' = None
    /\ ids' = <<>>
    /\ chunk_i' = 1
    /\ all_recs' = <<>>
    /\ reqs' = <<>>
    /\ resps' = <<>>

\* list_*_menu / show_* returns: its locals are gone.
DiscardFrame ==
    /\ f_arns' = <<>>
    /\ f_service_arns' = <<>>
    /\ f_details' = <<>>
    /\ status_count' = <<>>

\* cluster_arn, cluster_name = cluster_info
cluster_arn == cluster_info[1]

Rebind_KeepCached(old, new) == IF old # <<>> THEN old ELSE new

\* name = value: the name is bound to the new value whatever it held
Rebind(old, new) == new

\* main_menu: the prompt of the while-True loop.
main_menu ==
    /\ pc = "main_menu"
    /\ \E sel \in MenuInputs, w \in MenuWorlds :
          /\ selection' = sel
          /\ fetched' = <<>>
          /\ world' = w
          /\ UNCHANGED <<raised, flocals, cluster_info, service_info,
                         service_arns, service_details, svc_i, task_arns,
                         task_details>>
          /\ IF Lower(sel) = "q"
             THEN ResumeAt("exit")
             ELSE IF sel \in {"1", "2", "3", "4"}
             THEN EnterListing("get_clusters", None, None,
                               "list_clusters_menu")
             ELSE ResumeAt("main_menu")

\* main_menu after list_clusters_menu returned info (options 1 to 4);
\* options 1 and 4 enter show_cluster_summary, whose first call is
\* get_cluster_details(ecs_client, [cluster_arn]).
AfterClusterMenu(info) ==
    /\ cluster_info' = info
    /\ IF info = None
       THEN ResumeAt("main_menu")
       ELSE CASE selection \in {"1", "4"} ->
                    EnterDescribe("get_cluster_details", None, <<info[1]>>,
                                  "show_cluster_summary:clusters")
              [] selection = "2" ->
                    EnterListing("get_services", info[1], None,
                                 "list_services_menu")
              [] selection = "3" -> ResumeAt("filter_prompt")

\* list_clusters_menu after get_clusters returned.
list_clusters_menu ==
    /\ pc = "list_clusters_menu"
    /\ UNCHANGED <<raised, world, fetched, selection, service_info,
                   service_arns, service_details, svc_i, task_arns,
                   task_details>>
    /\ IF retval[1] = <<>>
       THEN AfterClusterMenu(None) /\ DiscardFrame
       ELSE /\ f_arns' = retval[1]
            /\ ResumeAt("cluster_prompt")
            /\ UNCHANGED <<f_service_arns, f_details, status_count,
                           cluster_info>>

\* list_clusters_menu: "Select a cluster (number) or press 'q' to quit: "
list_clusters_menu_input(sel) ==
    /\ pc = "cluster_prompt"
    /\ AfterClusterMenu(ClusterChoice(sel, NamedList(f_arns)))
    /\ DiscardFrame
    /\ UNCHANGED <<raised, world, fetched, selection, service_info,
                   service_arns, service_details, svc_i, task_arns,
                   task_details>>

list_clusters_menu_select ==
    \E sel \in SelectInputs : list_clusters_menu_input(sel)

\* main_menu after show_cluster_summary returned: option 1 is over, option 4
\* goes on with get_services(ecs_client, cluster_arn).
AfterClusterSummary ==
    IF selection = "1"
    THEN ResumeAt("main_menu")
    ELSE EnterListing("get_services", cluster_arn, None, "main_menu:services")

\* show_cluster_summary after get_cluster_details returned.
show_cluster_summary_clusters ==
    /\ pc = "show_cluster_summary:clusters"
    /\ UNCHANGED <<raised, world, fetched, mmlocals>>
    /\ IF retval[1] = <<>>
       THEN AfterClusterSummary /\ DiscardFrame
       ELSE /\ f_details' = retval[1]
            /\ EnterListing("get_services", cluster_arn, None,
                            "show_cluster_summary:services")
            /\ UNCHANGED <<f_arns, f_service_arns, status_count>>

\* show_cluster_summary after get_services returned.
show_cluster_summary_services ==
    /\ pc = "show_cluster_summary:services"
    /\ f_service_arns' = retval[1]
    /\ EnterListing("get_tasks", cluster_arn, None,
                    "show_cluster_summary:tasks")
    /\ UNCHANGED <<raised, world, fetched, mmlocals, f_arns, f_details,
                   status_count>>

\* show_cluster_summary after get_tasks returned.
show_cluster_summary_tasks ==
    /\ pc = "show_cluster_summary:tasks"
    /\ f_arns' = retval[1]
    /\ IF retval[1] # <<>>
       THEN EnterDescribe("get_task_details", cluster_arn, retval[1],
                          "show_cluster_summary:task_details")
       ELSE ResumeAt("show_cluster_summary:enter")
    /\ UNCHANGED <<raised, world, fetched, mmlocals, f_service_arns,
                   f_details, status_count>>

\* show_cluster_summary after get_task_details returned: count and print.
show_cluster_summary_task_details ==
    /\ pc = "show_cluster_summary:task_details"
    /\ f_details' = retval[1]
    /\ status_count' = status_count_of(retval[1])
    /\ ResumeAt("show_cluster_summary:enter")
    /\ UNCHANGED <<raised, world, fetched, mmlocals, f_arns, f_service_arns>>

\* show_cluster_summary: "Press Enter to continue..."
show_cluster_summary_enter ==
    /\ pc = "show_cluster_summary:enter"
    /\ AfterClusterSummary
    /\ DiscardFrame
    /\ UNCHANGED <<raised, world, fetched, mmlocals>>

\* main_menu, option 4: "for service in service_details" at position i.
ServiceLoop(i, details) ==
    IF i <= Len(details)
    THEN /\ svc_i' = i
         /\ EnterListing("get_tasks", cluster_arn,
                         Some(details[i].serviceArn), "main_menu:tasks")
    ELSE /\ svc_i' = svc_i
         /\ ResumeAt("main_menu:enter")

\* main_menu, option 4, after get_services returned.
main_menu_services ==
    /\ pc = "main_menu:services"
    /\ service_arns' = Rebind(service_arns, retval[1])
    /\ IF service_arns' # <<>>
       THEN EnterDescribe("get_service_details", cluster_arn, service_arns',
                          "main_menu:service_details")
       ELSE ResumeAt("main_menu:enter")
    /\ UNCHANGED <<raised, world, fetched, flocals, selection, cluster_info,
                   service_info, service_details, svc_i, task_arns,
                   task_details>>

\* main_menu, option 4, after get_service_details returned.
main_menu_service_details ==
    /\ pc = "main_menu:service_details"
    /\ service_details' = retval[1]
    /\ ServiceLoop(1, retval[1])
    /\ UNCHANGED <<raised, world, fetched, flocals, selection, cluster_info,
                   service_info, service_arns, task_arns, task_details>>

\* main_menu, option 4, after get_tasks returned for one service.
main_menu_tasks ==
    /\ pc = "main_menu:tasks"
    /\ task_arns' = retval[1]
    /\ IF retval[1] # <<>>
       THEN /\ EnterDescribe("get_task_details", cluster_arn, retval[1],
                             "main_menu:task_details")
            /\ UNCHANGED svc_i
       ELSE ServiceLoop(svc_i + 1, service_details)
    /\ UNCHANGED <<raised, world, fetched, flocals, selection, cluster_info,
                   service_info, service_arns, service_details, task_details>>

\* main_menu, option 4, after get_task_details returned for one service.
main_menu_task_details ==
    /\ pc = "main_menu:task_details"
    /\ task_details' = retval[1]
    /\ ServiceLoop(svc_i + 1, service_details)
    /\ UNCHANGED <<raised, world, fetched, flocals, selection, cluster_info,
                   service_info, service_arns, service_details, task_arns>>

\* main_menu, option 4: "Press Enter to continue..."
main_menu_enter ==
    /\ pc = "main_menu:enter"
    /\ ResumeAt("main_menu")
    /\ UNCHANGED <<raised, world, fetched, flocals, mmlocals>>

\* main_menu after list_services_menu returned info (options 2 and 3);
\* option 2 enters show_service_summary, whose first call is
\* get_service_details(ecs_client, cluster_arn, [service_arn]); option 3
\* enters show_task_list with the service, whose first call is get_tasks.
AfterServiceMenu(info) ==
    /\ service_info' = info
    /\ IF info = PyFalse \/ info = None
       THEN ResumeAt("main_menu")
       ELSE CASE selection = "2" ->
                    EnterDescribe("get_service_details", cluster_arn,
                                  <<info[1]>>, "show_service_summary:services")
              [] selection = "3" ->
                    EnterListing("get_tasks", cluster_arn, Some(info[1]),
                                 "show_task_list:tasks")

\* list_services_menu after get_services returned.
list_services_menu ==
    /\ pc = "list_services_menu"
    /\ UNCHANGED <<raised, world, fetched, selection, cluster_info,
                   service_arns, service_details, svc_i, task_arns,
                   task_details>>
    /\ IF retval[1] = <<>>
       THEN AfterServiceMenu(None) /\ DiscardFrame
       ELSE /\ f_arns' = retval[1]
            /\ ResumeAt("service_prompt")
            /\ UNCHANGED <<f_service_arns, f_details, status_count,
                           service_info>>

\* list_services_menu: "Select a service (number), press 'b' to go back, or
\* 'q' to quit: "
list_services_menu_input(sel) ==
    /\ pc = "service_prompt"
    /\ AfterServiceMenu(ServiceChoice(sel, NamedList(f_arns)))
    /\ DiscardFrame
    /\ UNCHANGED <<raised, world, fetched, selection, cluster_info,
                   service_arns, service_details, svc_i, task_arns,
                   task_details>>

list_services_menu_select ==
    \E sel \in SelectInputs : list_services_menu_input(sel)

\* service_arn, service_name = service_info
service_arn == service_info[1]

\* show_service_summary after get_service_details returned.
show_service_summary_services ==
    /\ pc = "show_service_summary:services"
    /\ UNCHANGED <<raised, world, fetched, mmlocals>>
    /\ IF retval[1] = <<>>
       THEN ResumeAt("main_menu") /\ DiscardFrame
       ELSE /\ f_details' = retval[1]
            /\ EnterListing("get_tasks", cluster_arn, Some(service_arn),
                            "show_service_summary:tasks")
            /\ UNCHANGED <<f_arns, f_service_arns, status_count>>

\* show_service_summary after get_tasks returned.
show_service_summary_tasks ==
    /\ pc = "show_service_summary:tasks"
    /\ f_arns' = retval[1]
    /\ IF retval[1] # <<>>
       THEN EnterDescribe("get_task_details", cluster_arn, retval[1],
                          "show_service_summary:task_details")
       ELSE ResumeAt("show_service_summary:enter")
    /\ UNCHANGED <<raised, world, fetched, mmlocals, f_service_arns,
                   f_details, status_count>>

\* show_service_summary after get_task_details returned: group and print.
show_service_summary_task_details ==
    /\ pc = "show_service_summary:task_details"
    /\ f_details' = retval[1]
    /\ status_count' = tasks_by_status_counts(retval[1])
    /\ ResumeAt("show_service_summary:show_tasks")
    /\ UNCHANGED <<raised, world, fetched, mmlocals, f_arns, f_service_arns>>

\* show_service_summary: "Show task details? (y/N): "; either answer only
\* prints.
show_service_summary_show_tasks ==
    /\ pc = "show_service_summary:show_tasks"
    /\ \E answer \in YesNoInputs : ResumeAt("show_service_summary:enter")
    /\ UNCHANGED <<raised, world, fetched, mmlocals, flocals>>

\* show_service_summary: "Press Enter to continue..."
show_service_summary_enter ==
    /\ pc = "show_service_summary:enter"
    /\ ResumeAt("main_menu")
    /\ DiscardFrame
    /\ UNCHANGED <<raised, world, fetched, mmlocals>>

\* main_menu, option 3: "Filter tasks by service? (y/N): "
main_menu_filter ==
    /\ pc = "filter_prompt"
    /\ \E filter_by_service \in YesNoInputs :
          IF Lower(filter_by_service) = "y"
          THEN EnterListing("get_services", cluster_arn, None,
                            "list_services_menu")
          ELSE EnterListing("get_tasks", cluster_arn, None,
                            "show_task_list:tasks")
    /\ UNCHANGED <<raised, world, fetched, mmlocals, flocals>>

\* show_task_list after get_tasks returned.
show_task_list_tasks ==
    /\ pc = "show_task_list:tasks"
    /\ f_arns' = retval[1]
    /\ IF retval[1] = <<>>
       THEN ResumeAt("show_task_list:enter")
       ELSE EnterDescribe("get_task_details", cluster_arn, retval[1],
                          "show_task_list:task_details")
    /\ UNCHANGED <<raised, world, fetched, mmlocals, f_service_arns,
                   f_details, status_count>>

\* show_task_list after get_task_details returned: the tasks are listed.
show_task_list_task_details ==
    /\ pc = "show_task_list:task_details"
    /\ f_details' = retval[1]
    /\ ResumeAt("task_prompt")
    /\ UNCHANGED <<raised, world, fetched, mmlocals, f_arns, f_service_arns,
                   status_count>>

\* show_task_list: "Select a task for details (number), press 'b' to go
\* back, or 'q' to quit: "; main_menu ignores the value returned.
show_task_list_input(sel) ==
    /\ pc = "task_prompt"
    /\ IF TaskChoice(sel, f_details) = "details"
       THEN ResumeAt("show_task_list:enter") /\ UNCHANGED flocals
       ELSE ResumeAt("main_menu") /\ DiscardFrame
    /\ UNCHANGED <<raised, world, fetched, mmlocals>>

show_task_list_select ==
    \E sel \in SelectInputs : show_task_list_input(sel)

\* show_task_list: "Press Enter to continue..."
show_task_list_enter ==
    /\ pc = "show_task_list:enter"
    /\ ResumeAt("main_menu")
    /\ DiscardFrame
    /\ UNCHANGED <<raised, world, fetched, mmlocals>>

\* ------------------------------------------------ specification: the menu
NoCall ==
    /\ fn = ""
    /\ ret = ""
    /\ retval = None
    /\ op_cluster = None
    /\ op_service = None
    /\ arns = <<>>
    /\ next_token = None
    /\ ids = <<>>
    /\ chunk_i = 1
    /\ all_recs = <<>>
    /\ reqs = <<>>
    /\ resps = <<>>

NoFrame ==
    /\ f_arns = <<>>
    /\ f_service_arns = <<>>
    /\ f_details = <<>>
    /\ status_count = <<>>

\* the names of main_menu before the first assignment
Unbound ==
    /\ selection = ""
    /\ cluster_info = None
    /\ service_info = None
    /\ service_arns = <<>>
    /\ service_details = <<>>
    /\ svc_i = 1
    /\ task_arns = <<>>
    /\ task_details = <<>>

Init ==
    /\ pc = "main_menu"
    /\ raised = None
    /\ world = NoClusters
    /\ fetched = <<>>
    /\ NoCall
    /\ NoFrame
    /\ Unbound

Next ==
    \/ main_menu
    \/ list_clusters_menu
    \/ list_clusters_menu_select
    \/ list_services_menu
    \/ list_services_menu_select
    \/ show_cluster_summary_clusters
    \/ show_cluster_summary_services
    \/ show_cluster_summary_tasks
    \/ show_cluster_summary_task_details
    \/ show_cluster_summary_enter
    \/ show_service_summary_services
    \/ show_service_summary_tasks
    \/ show_service_summary_task_details
    \/ show_service_summary_show_tasks
    \/ show_service_summary_enter
    \/ main_menu_filter
    \/ show_task_list_tasks
    \/ show_task_list_task_details
    \/ show_task_list_select
    \/ show_task_list_enter
    \/ main_menu_services
    \/ main_menu_service_details
    \/ main_menu_tasks
    \/ main_menu_task_details
    \/ main_menu_enter
    \/ get_clusters
    \/ get_services
    \/ get_tasks
    \/ get_cluster_details
    \/ get_service_details
    \/ get_task_details

Spec == Init /\ [][Next]_vars

\* ----------------------------------------------- specification: one listing
\* One call of get_clusters, get_services or get_tasks, from a caller that
\* only receives the result, against a remote that answers anything.
InitListing ==
    /\ pc \in {"get_clusters", "get_services", "get_tasks"}
    /\ raised = None
    /\ world = AnyWorld
    /\ fetched = <<>>
    /\ fn = pc
    /\ ret = "returned"
    /\ retval = None
    /\ op_cluster \in (IF pc = "get_clusters" THEN {None} ELSE ClusterArns)
    /\ op_service \in (IF pc = "get_tasks"
                       THEN {None} \cup {Some(s) : s \in ServiceArns}
                       ELSE {None})
    /\ arns = <<>>
    /\ next_token = None
    /\ ids = <<>>
    /\ chunk_i = 1
    /\ all_recs = <<>>
    /\ reqs = <<>>
    /\ resps = <<>>
    /\ NoFrame
    /\ Unbound

NextListing == get_clusters \/ get_services \/ get_tasks

SpecListing == InitListing /\ [][NextListing]_vars

\* ------------------------------------------ specification: one detail fetch
\* One call of get_task_details, get_service_details or get_cluster_details
\* with an identifier list of any length up to MaxLen, against a remote on
\* which some of the identifiers no longer exist.
GoneKinds == {"none", "all", "first", "odd", "tenth"}

IsGone(kind, n) ==
    CASE kind = "none" -> FALSE
      [] kind = "all" -> TRUE
      [] kind = "first" -> n = 1
      [] kind = "odd" -> n % 2 = 1
      [] kind = "tenth" -> n % 10 = 0

GoneOf(kind, list) ==
    {list[i] : i \in {j \in 1..Len(list) : IsGone(kind, list[j][2])}}

InitBatch ==
    /\ pc \in {"get_task_details", "get_service_details", "get_cluster_details"}
    /\ raised = None
    /\ fetched = <<>>
    /\ fn = pc
    /\ ret = "returned"
    /\ retval = None
    /\ op_cluster = ClusterArn(1)
    /\ op_service = None
    /\ arns = <<>>
    /\ next_token = None
    /\ \E L \in 0..MaxLen :
           ids = [n \in 1..L |->
                    CASE pc = "get_task_details" -> TaskArn(n)
                      [] pc = "get_service_details" -> ServiceArn(n)
                      [] pc = "get_cluster_details" -> ClusterArn(n)]
    /\ chunk_i = 1
    /\ all_recs = <<>>
    /\ reqs = <<>>
    /\ resps = <<>>
    /\ \E kind \in GoneKinds :
           world = World(<<>>, <<>>, <<>>, GoneOf(kind, ids), StatusBy(ids, 0))
    /\ NoFrame
    /\ Unbound

NextBatch == get_task_details \/ get_service_details \/ get_cluster_details

SpecBatch == InitBatch /\ [][NextBatch]_vars

\* ------------------------------------- specification: one status aggregation
\* show_cluster_summary and show_service_summary at the point where
\* get_task_details has just returned any list of up to MaxRecs task records.
TaskRecords == {TaskRecord(TaskArn(1), s) : s \in Statuses}

InitAggregation ==
    /\ pc \in {"show_cluster_summary:task_details",
               "show_service_summary:task_details"}
    /\ raised = None
    /\ world = NoClusters
    /\ fetched = <<>>
    /\ fn = "get_task_details"
    /\ ret = pc
    /\ retval \in {Some(recs) : recs \in SeqsUpTo(TaskRecords, MaxRecs)}
    /\ op_cluster = ClusterArn(1)
    /\ op_service = None
    /\ arns = <<>>
    /\ next_token = None
    /\ ids = <<>>
    /\ chunk_i = 1
    /\ all_recs = <<>>
    /\ reqs = <<>>
    /\ resps = <<>>
    /\ NoFrame
    /\ selection = "1"
    /\ cluster_info = <<ClusterArn(1), 1>>
    /\ service_info = None
    /\ service_arns = <<>>
    /\ service_details = <<>>
    /\ svc_i = 1
    /\ task_arns = <<>>
    /\ task_details = <<>>

NextAggregation ==
    \/ show_cluster_summary_task_details
    \/ show_service_summary_task_details

SpecAggregation == InitAggregation /\ [][NextAggregation]_vars

\* ====================================================================
\* Properties of the listing functions (checked under SpecListing)
\* ====================================================================
RECURSIVE Flatten(_)
Flatten(seqs) ==
    IF seqs = <<>> THEN <<>> ELSE Head(seqs) \o Flatten(Tail(seqs))

PageItems == [i \in 1..Len(resps) |-> resps[i].items]

HasDuplicate(s) == \E i, j \in 1..Len(s) : i < j /\ s[i] = s[j]

\* C1: when get_clusters, get_services or get_tasks returns, the value is
\* exactly the concatenation of the identifier lists of the pages the remote
\* served, in the order served, duplicates kept and no token among them.
C1_ListingIsConcatenation ==
    pc = "returned" => retval = Some(Flatten(PageItems))

C1_Witness ==
    /\ pc = "returned"
    /\ Len(resps) = MaxPages
    /\ HasDuplicate(retval[1])
    /\ \A i \in 1..Len(resps) : resps[i].items # <<>>

\* C2: a listing pass issues one call per page served, goes on after every
\* page that carries a token and stops at the first page that omits one; an
\* empty first page without a token gives one call and the empty result.
C2_OneCallPerPageStopsAtTokenless ==
    /\ Len(reqs) = Len(resps)
    /\ \A i \in 1..Len(resps) :
           /\ i < Len(resps) => resps[i].ok /\ resps[i].nextToken # None
           /\ (resps[i].ok /\ resps[i].nextToken = None)
                  => /\ i = Len(resps)
                     /\ pc = "returned"
                     /\ Len(reqs) = i
           /\ (resps[i].ok /\ resps[i].nextToken # None /\ i = Len(resps))
                  => pc \in {"get_clusters", "get_services", "get_tasks"}
    /\ (Len(resps) = 1 /\ resps[1] = ListOk(<<>>, None))
           => pc = "returned" /\ retval = Some(<<>>) /\ Len(reqs) = 1

C2_Witness ==
    /\ pc = "returned"
    /\ Len(reqs) = 2
    /\ Len(resps[1].items) = 2 /\ resps[1].nextToken # None
    /\ Len(resps[2].items) = 1 /\ resps[2].nextToken = None

\* C3: the first call of a pass carries no continuation token and every
\* later call carries exactly the token of the response just before it.
C3_TokenPassedBackUnmodified ==
    \A i \in 1..Len(reqs) :
        reqs[i].nextToken = (IF i = 1 THEN None ELSE resps[i-1].nextToken)

\* C8: a failing listing call ends the pass at once: the error the remote
\* raised is the exception that reaches the top level, the failed call was
\* issued once, nothing follows it and no list is returned.
C8_ListingFailurePropagates ==
    \A i \in 1..Len(resps) :
        ~resps[i].ok =>
            /\ i = Len(resps)
            /\ Len(reqs) = i
            /\ pc = "error"
            /\ raised = Some(resps[i].error)
            /\ retval = None

C8_Witness ==
    /\ pc = "error"
    /\ Len(resps) = 3
    /\ arns # <<>>
    /\ ~resps[3].ok

\* ====================================================================
\* Properties of the detail functions (checked under SpecBatch)
\* ====================================================================
Batched == fn \in {"get_task_details", "get_service_details"}

BatchLimit == IF fn = "get_task_details" THEN TaskBatch ELSE ServiceBatch

Requested == [k \in 1..Len(reqs) |-> reqs[k].ids]

ChunkSizes == [k \in 1..Len(reqs) |-> Len(reqs[k].ids)]

\* C4: get_task_details (B = 100) and get_service_details (B = 10) issue
\* ceil(L/B) describe calls for L identifiers; the k-th call requests the
\* k-th contiguous run of B identifiers (the last run may be shorter), so
\* the requested chunks concatenate to the input.
C4_ChunksPartitionInput ==
    Batched =>
        LET B == BatchLimit
            L == Len(ids)
            n == Len(reqs)
        IN  /\ \A k \in 1..n :
                   /\ Len(reqs[k].ids) <= B
                   /\ k < n => Len(reqs[k].ids) = B
                   /\ \A j \in 1..Len(reqs[k].ids) :
                          reqs[k].ids[j] = ids[(k - 1) * B + j]
            /\ pc = "returned" =>
                   /\ n * B >= L /\ (n - 1) * B < L
                   /\ Flatten(Requested) = ids
                   /\ (L = 250 /\ B = 100) => ChunkSizes = <<100, 100, 50>>

C4_Witness ==
    /\ pc = "returned"
    /\ fn = "get_task_details"
    /\ Len(ids) = 250
    /\ ChunkSizes = <<100, 100, 50>>

\* C5: the value get_task_details / get_service_details returns is the
\* concatenation of the per-chunk responses in chunk order; records the
\* remote leaves out are simply absent, so the length lies between 0 and the
\* input length, and only a failed call ends the function with an error.
C5_ResultIsConcatenationOfResponses ==
    Batched =>
        /\ pc = "returned" =>
               /\ retval = Some(Flatten(PageItems))
               /\ Len(retval[1]) <= Len(ids)
               /\ raised = None
        /\ pc = "error" => ~resps[Len(resps)].ok

C5_Witness ==
    /\ pc = "returned"
    /\ fn = "get_service_details"
    /\ Len(resps) = 3
    /\ \A k \in 1..3 : 0 < Len(resps[k].items)
                          /\ Len(resps[k].items) < Len(reqs[k].ids)
    /\ Len(retval[1]) < Len(ids)

\* C6: with an empty identifier list the three get_*_details functions
\* return the empty list and issue no remote call.
C6_EmptyInputNoCalls ==
    ids = <<>> =>
        /\ reqs = <<>>
        /\ pc # "error"
        /\ pc = "returned" => retval = Some(<<>>)

C6_Witness ==
    /\ pc = "returned"
    /\ fn = "get_cluster_details"
    /\ ids = <<>>
    /\ retval = Some(<<>>)

\* C7: a failing describe call ends get_task_details / get_service_details
\* at once: it is the last call issued, it was issued once, its error is
\* the exception that propagates and nothing is returned.
C7_DescribeFailurePropagates ==
    Batched =>
        \A k \in 1..Len(resps) :
            ~resps[k].ok =>
                /\ k = Len(resps)
                /\ Len(reqs) = k
                /\ pc = "error"
                /\ raised = Some(resps[k].error)
                /\ retval = None

C7_Witness ==
    /\ pc = "error"
    /\ fn = "get_task_details"
    /\ Len(task_chunks(ids)) = 3
    /\ Len(resps) = 2
    /\ all_recs # <<>>
    /\ ~resps[2].ok

\* ====================================================================
\* Properties of the status aggregation (checked under SpecAggregation)
\* ====================================================================
Aggregated ==
    pc \in {"show_cluster_summary:enter", "show_service_summary:show_tasks"}

StatusesOf(details) == [i \in 1..Len(details) |-> details[i].lastStatus]

Occurrences(s, details) ==
    Cardinality({i \in 1..Len(details) : details[i].lastStatus = s})

RECURSIVE SumOf(_)
SumOf(counts) ==
    IF DOMAIN counts = {} THEN 0
    ELSE LET k == CHOOSE x \in DOMAIN counts : TRUE
         IN  counts[k] + SumOf([x \in DOMAIN counts \ {k} |-> counts[x]])

\* C9: the status lines show_cluster_summary and show_service_summary print
\* have exactly the distinct lastStatus values of the records as keys, each
\* with its number of occurrences, the counts summing to the number of
\* records; a status outside RUNNING/PENDING/STOPPED has its own key.
C9_StatusCounts ==
    Aggregated =>
        /\ DOMAIN status_count
               = {f_details[i].lastStatus : i \in 1..Len(f_details)}
        /\ \A s \in DOMAIN status_count :
               status_count[s] = Occurrences(s, f_details)
        /\ SumOf(status_count) = Len(f_details)
        /\ StatusesOf(f_details)
               = <<"RUNNING", "RUNNING", "PENDING", "STOPPED", "RUNNING">>
           => /\ DOMAIN status_count = {"RUNNING", "PENDING", "STOPPED"}
              /\ status_count["RUNNING"] = 3
              /\ status_count["PENDING"] = 1
              /\ status_count["STOPPED"] = 1

C9_Witness ==
    /\ pc = "show_cluster_summary:enter"
    /\ StatusesOf(f_details)
           = <<"RUNNING", "DEPROVISIONING", "PENDING", "STOPPED", "RUNNING">>
    /\ DOMAIN status_count
           = {"RUNNING", "PENDING", "STOPPED", "DEPROVISIONING"}
    /\ status_count["RUNNING"] = 2

\* ====================================================================
\* Properties of the menu (checked under Spec)
\* ====================================================================
Elements(list) == {list[i] : i \in 1..Len(list)}

\* the get_* call that returned last, since the main menu was answered, was
\* f and returned value
LastFetched(f, value) ==
    /\ fetched # <<>>
    /\ fetched[Len(fetched)].fn = f
    /\ fetched[Len(fetched)].value = value

\* some call of f since the main menu was answered returned a list with arn
FetchedListHas(f, arn) ==
    \E i \in 1..Len(fetched) :
        fetched[i].fn = f /\ arn \in Elements(fetched[i].value)

\* some get_service_details call since the main menu was answered returned
\* a record of the service arn
FetchedServiceRecord(arn) ==
    \E i \in 1..Len(fetched) :
        /\ fetched[i].fn = "get_service_details"
        /\ \E j \in 1..Len(fetched[i].value) :
               fetched[i].value[j].serviceArn = arn

\* nothing in main_menu's frame holds an identifier or a record
NothingKept ==
    /\ cluster_info = None
    /\ service_info = None
    /\ service_arns = <<>>
    /\ service_details = <<>>
    /\ task_arns = <<>>
    /\ task_details = <<>>

ListThenDescribe ==
    \/ fn = "get_task_details"
    \/ fn = "get_service_details" /\ ret = "main_menu:service_details"

ListingOf(f) == IF f = "get_task_details" THEN "get_tasks" ELSE "get_services"

IsPrefix(s, t) == Len(s) <= Len(t) /\ s = SubSeq(t, 1, Len(s))

\* the listing pass whose result is the i-th value fetched in this menu pass
\* was a pass of f and collected list
FetchedAt(i, f, list) ==
    /\ i >= 1
    /\ i <= Len(fetched)
    /\ fetched[i].fn = f
    /\ fetched[i].value = list

\* C11: in every operation that lists and then describes, the listing pass
\* hands over its list only after a response without a continuation token
\* (every response before it carried one) and the list is everything the
\* pages held; describe_tasks / describe_services calls are issued only
\* after that, for identifiers of that list in order, and when the describe
\* function returns the identifiers it requested are exactly that list.
C11_DescribeAfterCompleteListing ==
    /\ (fn \in {"get_clusters", "get_services", "get_tasks"} /\ pc = ret) =>
           /\ resps # <<>>
           /\ resps[Len(resps)].ok
           /\ resps[Len(resps)].nextToken = None
           /\ \A i \in 1..(Len(resps) - 1) : resps[i].nextToken # None
           /\ retval = Some(Flatten(PageItems))
           /\ FetchedAt(Len(fetched), fn, Flatten(PageItems))
    /\ (ListThenDescribe /\ pc = fn) =>
           /\ FetchedAt(Len(fetched), ListingOf(fn), ids)
           /\ IsPrefix(Flatten(Requested), ids)
           /\ Len(Flatten(Requested)) < Len(ids)
    /\ (ListThenDescribe /\ pc = "error") =>
           /\ FetchedAt(Len(fetched), ListingOf(fn), ids)
           /\ IsPrefix(Flatten(Requested), ids)
    /\ (ListThenDescribe /\ pc = ret) =>
           /\ FetchedAt(Len(fetched) - 1, ListingOf(fn), ids)
           /\ Flatten(Requested) = ids
           /\ ids # <<>>

\* option 4 described the tasks of a service after a listing pass of more
\* than one page
C11_Witness ==
    /\ pc = "main_menu:task_details"
    /\ Len(world.tasks) > 1
    /\ Len(ids) = Len(world.tasks)
    /\ FetchedAt(Len(fetched) - 1, "get_tasks", ids)
    /\ Flatten(Requested) = ids

\* the operator enters 'q' or 'Q' at the cluster-selection, the
\* service-selection or the task-selection prompt
QuitEntered ==
    \E sel \in {"q", "Q"} :
        \/ list_clusters_menu_input(sel)
        \/ list_services_menu_input(sel)
        \/ show_task_list_input(sel)

\* C12: 'q' (in either case) at a selection prompt quits the program:
\* main_menu returns, the main menu is not shown again and no remote call
\* follows.
C12_QuitAtSelectionPromptExits ==
    [][QuitEntered => pc' = "exit"]_vars

\* C13: every page request of one get_tasks pass carries the cluster and the
\* service filter of the first one: the cluster_arn argument on all of them,
\* serviceName = service_arn on all of them when a service was given (with
\* or without a continuation token) and on none of them when it was not.
C13_SameScopeOnEveryPage ==
    fn = "get_tasks" =>
        \A i \in 1..Len(reqs) :
            /\ reqs[i].api = "list_tasks"
            /\ reqs[i].cluster = reqs[1].cluster
            /\ reqs[i].serviceName = reqs[1].serviceName
            /\ reqs[i].cluster = Some(op_cluster)
            /\ reqs[i].serviceName = op_service

\* a pass of three pages with a service given, whose second request carries
\* a continuation token
C13_Witness ==
    /\ fn = "get_tasks"
    /\ pc = "returned"
    /\ op_service # None
    /\ Len(reqs) = MaxPages
    /\ reqs[2].nextToken # None
    /\ reqs[MaxPages].serviceName = op_service

\* the input is not a number, or a number outside 1..n
InvalidSelection(sel, n) ==
    \/ PyInt(sel) = None
    \/ PyInt(sel)[1] < 1
    \/ PyInt(sel)[1] > n

\* the list the prompt shows: what the listing call just before it returned
Listed == fetched[Len(fetched)].value

\* the k-th listed item, as (ARN, name)
ListedItem(k) == <<Listed[k], LastSegment(Listed[k])>>

\* the menu pass is over with no describe call and no task listing issued:
\* the main menu is shown again, no call is in progress and the only calls
\* of the pass were the listings of clusters and services
NothingSelected ==
    /\ pc' = "main_menu"
    /\ NoCall'
    /\ fetched' = fetched
    /\ \A i \in 1..Len(fetched) :
           fetched[i].fn \in {"get_clusters", "get_services"}

====
